---- MODULE Spec2Model ----
(***************************************************************************)
(* State-machine model of load_balancer.py: the Load-Aware router          *)
(* (LoadAwareBalancer) with its pending queue, state-update sweep and      *)
(* health-check thread, the Least-Connections router                       *)
(* (LeastConnectionsBalancer) as the LoadBalancer facade drives it, and    *)
(* the Round-Robin router (RoundRobinBalancer).                            *)
(*                                                                         *)
(* Time is a discrete clock `now`; time.time() reads it.  A handler that   *)
(* runs under the router's lock (assign_request, a health-check tick) is   *)
(* one atomic action: the lock excludes every other such handler while it  *)
(* runs.  The state-update sweep called on demand (load_balancer.py line   *)
(* 259) takes no lock, so it is modelled one loop iteration per step, and  *)
(* the health thread may run between its steps.  As in the program, one    *)
(* caller thread issues the assign_request calls and the on-demand sweeps. *)
(***************************************************************************)
EXTENDS Integers, Sequences, FiniteSets, TLC

\* ---------------------------------------------------------------- bounds
MaxReq == 3        \* assign calls in one run (caps request_counter)
MaxTime == 3       \* last instant of the clock
MaxSize == 3       \* request sizes are 1..MaxSize
MaxQueue == 2      \* assign_request is not called with MaxQueue requests pending
MaxCalls == 6      \* Round-Robin assign calls in one run

\* ------------------------------------------------------- construction input
\* The servers mapping handed to the constructors, in insertion order.
Order == <<"A", "B">>
Names == {Order[i] : i \in 1..Len(Order)}
Capacity == ("A" :> 1) @@ ("B" :> 2)
\* LoadAwareBalancer(servers, request_timeout=...), in clock units.
request_timeout == 1
\* The servers mapping handed to LeastConnectionsBalancer, in insertion order.
LC_Order == <<"A", "B", "C">>
LC_Names == {LC_Order[i] : i \in 1..Len(LC_Order)}
LC_Capacity == ("A" :> 1) @@ ("B" :> 2) @@ ("C" :> 3)
\* The servers mapping handed to RoundRobinBalancer: self.servers is the list
\* of its keys, self.capacities the mapping itself.
RR_servers == <<"A", "B", "C">>
RR_capacities == ("A" :> 1) @@ ("B" :> 2) @@ ("C" :> 3)

Sizes == 1..MaxSize
\* priority arguments (the default is 1), lower is more urgent
Priorities == {1, 2}
\* the synthetic processing times random.uniform draws, in clock units
ProcTimes == {1, 2}

VARIABLES
    servers,             \* LoadAware: self.servers, name -> server record
    request_queue,       \* LoadAware: self.request_queue, a set of <<priority, timestamp, req_id, size>>
    request_counter,     \* LoadAware: self.request_counter
    completed_requests,  \* LoadAware: self.completed_requests
    sweep_pc,            \* on-demand sweep: "idle", "servers", "queue", "refill"
    sweep_time,          \* on-demand sweep: current_time (line 129); 0 once the first loop is over
    sweep_iter,          \* on-demand sweep: servers the dict iterator has yet to yield
    sweep_used,          \* on-demand sweep: the dict's size when the iterator was made; 0 once it is gone
    temp_queue,          \* on-demand sweep: temp_queue
    sweep_fault,         \* how the last on-demand sweep ended: "none" or the exception
    last,                \* what the last assign call did and returned
    dropped,             \* ids of the queue entries a sweep discarded at line 145
    now,                 \* the clock
    lc_servers,          \* LeastConnections: self.servers
    lc_last,             \* what the last LeastConnections assign reclaimed and returned
    lc_pc,               \* the facade's caller of LeastConnections: "idle", or "called" between assign and release
    rr_index,            \* RoundRobin: self.index
    rr_log               \* RoundRobin: the calls so far, each [index, size, server]

vars == <<servers, request_queue, request_counter, completed_requests,
          sweep_pc, sweep_time, sweep_iter, sweep_used, temp_queue,
          sweep_fault, last, dropped, now, lc_servers, lc_last, lc_pc,
          rr_index, rr_log>>

la_vars == <<servers, request_queue, request_counter, completed_requests,
             sweep_pc, sweep_time, sweep_iter, sweep_used, temp_queue,
             sweep_fault, last, dropped>>

lc_vars == <<lc_servers, lc_last, lc_pc>>

rr_vars == <<rr_index, rr_log>>

\* ------------------------------------------------------------ registry
Pos(n) == CHOOSE i \in 1..Len(Order) : Order[i] = n

\* The keys of a registry dict in iteration (insertion) order.
RegOrder(srv) == SelectSeq(Order, LAMBDA n : n \in DOMAIN srv)

RECURSIVE SumSizes(_, _)
SumSizes(active, ids) ==
    IF ids = {} THEN 0
    ELSE LET r == CHOOSE x \in ids : TRUE
         IN active[r].size + SumSizes(active, ids \ {r})

\* ------------------------------------------------- LoadAwareBalancer
LA_InitServers ==
    [n \in Names |-> [capacity |-> Capacity[n],
                      active_requests |-> << >>,
                      current_load |-> 0,
                      status |-> "healthy"]]

\* lines 131-134: the ids whose end_time has passed
LA_Completed(server, current_time) ==
    {r \in DOMAIN server.active_requests :
        server.active_requests[r].end_time <= current_time}

\* lines 135-137: pop them and release their load
LA_PopCompleted(server, current_time) ==
    LET done == LA_Completed(server, current_time)
    IN [server EXCEPT
          !.active_requests = [r \in (DOMAIN server.active_requests) \ done |->
                                  server.active_requests[r]],
          !.current_load = @ - SumSizes(server.active_requests, done)]

\* lines 147-151 (and the filter lines 184-188 are written to be)
LA_Available(srv, req_size) ==
    {s \in DOMAIN srv :
        /\ srv[s].status = "healthy"
        /\ srv[s].current_load + req_size <= srv[s].capacity}

\* The key of lines 156-159 / 193-196, (ratio, len(active_requests)), compared
\* as Python compares tuples; the ratios are compared by cross-multiplication.
LA_KeyLess(srv, req_size, a, b) ==
    LET na == (srv[a].current_load + req_size) * srv[b].capacity
        nb == (srv[b].current_load + req_size) * srv[a].capacity
        la == Cardinality(DOMAIN srv[a].active_requests)
        lb == Cardinality(DOMAIN srv[b].active_requests)
    IN \/ na < nb
       \/ na = nb /\ la < lb

\* min(available_servers, key=...): the first of the smallest, in list order
LA_MinServer(srv, available, req_size) ==
    CHOOSE s \in available :
        \A o \in available \ {s} :
            \/ LA_KeyLess(srv, req_size, s, o)
            \/ ~LA_KeyLess(srv, req_size, o, s) /\ Pos(s) < Pos(o)

\* lines 169-175: the entry is keyed by self.request_counter
LA_assign_to_server(srv, name, request_size, counter, completion_time) ==
    [srv EXCEPT
       ![name].active_requests =
           [r \in (DOMAIN srv[name].active_requests) \cup {counter} |->
               IF r = counter
               THEN [end_time |-> completion_time, size |-> request_size]
               ELSE srv[name].active_requests[r]],
       ![name].current_load = @ + request_size]

\* PriorityQueue order: tuples compared lexicographically
LA_EntryLess(e, f) ==
    \/ e[1] < f[1]
    \/ e[1] = f[1] /\ e[2] < f[2]
    \/ e[1] = f[1] /\ e[2] = f[2] /\ e[3] < f[3]
    \/ e[1] = f[1] /\ e[2] = f[2] /\ e[3] = f[3] /\ e[4] < f[4]

\* PriorityQueue.get()
LA_QueueGet_Latest(q) == CHOOSE e \in q : \A f \in q \ {e} : LA_EntryLess(f, e)

LA_QueueGet(q) == CHOOSE e \in q : \A f \in q \ {e} : LA_EntryLess(e, f)

LA_Expired_Late(e, t) == t - e[2] > request_timeout + 1

\* line 144: the entry has timed out
LA_Expired(e, t) == t - e[2] > request_timeout

\* lines 143-164: one iteration of the drain loop, on entry e at time t
LA_ProcessEntry(srv, temp, drp, e, t, counter, d) ==
    IF LA_Expired(e, t)
    THEN [srv |-> srv, temp |-> temp, dropped |-> drp \cup {e[3]}]
    ELSE LET available_servers == LA_Available(srv, e[4])
         IN IF available_servers # {}
            THEN [srv |-> LA_assign_to_server(
                              srv, LA_MinServer(srv, available_servers, e[4]),
                              e[4], counter, t + d),
                  temp |-> temp, dropped |-> drp]
            ELSE [srv |-> srv, temp |-> temp \cup {e}, dropped |-> drp]

\* lines 142-164: the whole drain loop.  Each placement draws its own
\* processing time (line 170), so the loop has a set of possible outcomes.
RECURSIVE LA_DrainQueue(_, _, _, _, _, _)
LA_DrainQueue(srv, q, temp, drp, t, counter) ==
    IF q = {} THEN {[srv |-> srv, temp |-> temp, dropped |-> drp]}
    ELSE LET e == LA_QueueGet(q)
         IN UNION {LA_DrainQueue(st.srv, q \ {e}, st.temp, st.dropped, t, counter) :
                     st \in {LA_ProcessEntry(srv, temp, drp, e, t, counter, d) :
                                d \in ProcTimes}}

\* lines 128-167: the whole sweep, as assign_request runs it under the lock:
\* the possible outcomes
LA_update_server_states(srv, q, done, drp, t, counter) ==
    LET popped == [n \in DOMAIN srv |-> LA_PopCompleted(srv[n], t)]
        fin == UNION {LA_Completed(srv[n], t) : n \in DOMAIN srv}
    IN {[srv |-> st.srv, queue |-> st.temp, completed |-> done \cup fin,
         dropped |-> st.dropped] :
          st \in LA_DrainQueue(popped, q, {}, drp, t, counter)}

\* lines 184-188 as written: the condition reads req_size, a name no scope of
\* assign_request defines, so evaluating it for a healthy server raises
\* NameError; the list is built only when there is no such server.
LA_AssignFilter_Named(srv, request_size) ==
    [fault |-> FALSE, servers |-> LA_Available(srv, request_size)]

LA_AssignFilter_NoCapacityClause(srv, request_size) ==
    [fault |-> FALSE, servers |-> {s \in DOMAIN srv : srv[s].status = "healthy"}]

LA_AssignFilter(srv, request_size) ==
    IF \E s \in DOMAIN srv : srv[s].status = "healthy"
    THEN [fault |-> TRUE, servers |-> {}]
    ELSE [fault |-> FALSE, servers |-> {}]

NoResult ==
    [kind |-> "none", server |-> "none", req_id |-> 0, queue_position |-> 0,
     size |-> 0]

\* lines 181-182: self.request_counter += 1; req_id = self.request_counter
LA_NextId_Stale(counter) == counter

LA_NextId(counter) == counter + 1

\* lines 177-208: assign_request(request_size, priority), under the lock
LA_assign_request(request_size, priority) ==
    /\ sweep_pc = "idle"
    /\ request_counter < MaxReq
    /\ \E st \in LA_update_server_states(servers, request_queue, completed_requests,
                                          dropped, now, request_counter) :
         LET req_id == LA_NextId(request_counter)
             filter == LA_AssignFilter(st.srv, request_size)
             res == [NoResult EXCEPT !.req_id = req_id, !.size = request_size]
         IN /\ request_counter' = req_id
            /\ completed_requests' = st.completed
            /\ dropped' = st.dropped
            /\ IF filter.fault
               THEN /\ servers' = st.srv
                    /\ request_queue' = st.queue
                    /\ last' = [res EXCEPT !.kind = "fault"]
               ELSE IF filter.servers # {}
               THEN LET server_name ==
                            LA_MinServer(st.srv, filter.servers, request_size)
                    IN /\ \E d \in ProcTimes :
                            servers' = LA_assign_to_server(st.srv, server_name,
                                                           request_size, req_id, now + d)
                       /\ request_queue' = st.queue
                       /\ last' = [res EXCEPT !.kind = "placed", !.server = server_name]
               ELSE /\ Cardinality(st.queue) < MaxQueue
                    /\ servers' = st.srv
                    /\ request_queue' =
                           st.queue \cup {<<priority, now, req_id, request_size>>}
                    /\ last' = [res EXCEPT !.kind = "queued",
                                           !.queue_position = Cardinality(st.queue) + 1]
    /\ UNCHANGED <<sweep_pc, sweep_time, sweep_iter, sweep_used,
                   temp_queue, sweep_fault, now, lc_vars, rr_vars>>

Assign ==
    \E request_size \in Sizes, priority \in Priorities :
        LA_assign_request(request_size, priority)

\* ---- the sweep called on demand, without the lock (line 259)
\* lines 129-130: read the clock, start iterating self.servers.items()
SweepStart ==
    /\ sweep_pc = "idle"
    /\ sweep_pc' = "servers"
    /\ sweep_time' = now
    /\ sweep_iter' = RegOrder(servers)
    /\ sweep_used' = Cardinality(DOMAIN servers)
    /\ sweep_fault' = "none"
    /\ UNCHANGED <<servers, request_queue, request_counter, completed_requests,
                   temp_queue, last, dropped, now, lc_vars, rr_vars>>

\* lines 130-139: the iterator's next() and one loop body.  next() raises
\* RuntimeError when the dict has changed size since the iterator was made.
SweepServer ==
    /\ sweep_pc = "servers"
    /\ IF Cardinality(DOMAIN servers) # sweep_used
       THEN /\ sweep_fault' = "RuntimeError"
            /\ sweep_pc' = "idle"
            /\ sweep_iter' = << >>
            /\ sweep_time' = 0
            /\ sweep_used' = 0
            /\ UNCHANGED <<servers, completed_requests>>
       ELSE IF sweep_iter = << >>
       THEN /\ sweep_pc' = "queue"
            /\ sweep_time' = 0
            /\ sweep_used' = 0
            /\ UNCHANGED <<servers, completed_requests, sweep_iter, sweep_fault>>
       ELSE LET n == Head(sweep_iter)
            IN /\ servers' = [servers EXCEPT ![n] = LA_PopCompleted(@, sweep_time)]
               /\ completed_requests' =
                      completed_requests \cup LA_Completed(servers[n], sweep_time)
               /\ sweep_iter' = Tail(sweep_iter)
               /\ UNCHANGED <<sweep_pc, sweep_fault, sweep_time, sweep_used>>
    /\ UNCHANGED <<request_queue, request_counter,
                   temp_queue, last, dropped, now, lc_vars, rr_vars>>

\* lines 142-164: the loop test and one iteration of the drain loop
SweepQueue ==
    /\ sweep_pc = "queue"
    /\ IF request_queue = {}
       THEN /\ sweep_pc' = "refill"
            /\ UNCHANGED <<servers, request_queue, temp_queue, dropped>>
       ELSE \E d \in ProcTimes :
              LET e == LA_QueueGet(request_queue)
                  st == LA_ProcessEntry(servers, temp_queue, dropped, e, now,
                                        request_counter, d)
              IN /\ request_queue' = request_queue \ {e}
                 /\ servers' = st.srv
                 /\ temp_queue' = st.temp
                 /\ dropped' = st.dropped
                 /\ UNCHANGED sweep_pc
    /\ UNCHANGED <<request_counter, completed_requests, sweep_time,
                   sweep_iter, sweep_used, sweep_fault, last, now, lc_vars, rr_vars>>

\* lines 166-167: the loop test and one iteration of the refill loop
SweepRefill ==
    /\ sweep_pc = "refill"
    /\ IF temp_queue = {}
       THEN /\ sweep_pc' = "idle"
            /\ UNCHANGED <<request_queue, temp_queue>>
       ELSE LET e == LA_QueueGet(temp_queue)
            IN /\ temp_queue' = temp_queue \ {e}
               /\ request_queue' = request_queue \cup {e}
               /\ UNCHANGED sweep_pc
    /\ UNCHANGED <<servers, request_counter, completed_requests,
                   sweep_time, sweep_iter, sweep_used, sweep_fault, last, dropped, now,
                   lc_vars, rr_vars>>

\* ---- the health-check thread, lines 120-126: one tick, under the lock.
\* Each server of list(self.servers.keys()) is deleted or kept by its own
\* random draw, so a tick removes any subset of the registry.
LA_run_health_checks_Heals(removed) ==
    /\ servers' = [n \in Names \ removed |->
                      IF n \in DOMAIN servers THEN servers[n] ELSE LA_InitServers[n]]
    /\ UNCHANGED <<request_queue, request_counter, completed_requests,
                   sweep_pc, sweep_time, sweep_iter, sweep_used, temp_queue,
                   sweep_fault, last, dropped, now, lc_vars, rr_vars>>

LA_run_health_checks(removed) ==
    /\ servers' = [n \in (DOMAIN servers) \ removed |-> servers[n]]
    /\ UNCHANGED <<request_queue, request_counter, completed_requests,
                   sweep_pc, sweep_time, sweep_iter, sweep_used, temp_queue,
                   sweep_fault, last, dropped, now, lc_vars, rr_vars>>

HealthTick == \E removed \in SUBSET (DOMAIN servers) : LA_run_health_checks(removed)

\* the clock advances
Tick ==
    /\ now < MaxTime
    /\ now' = now + 1
    /\ UNCHANGED <<la_vars, lc_vars, rr_vars>>

\* ------------------------------------------- LeastConnectionsBalancer
LC_Pos(n) == CHOOSE i \in 1..Len(LC_Order) : LC_Order[i] = n

\* lines 51-58
LC_InitServers ==
    [n \in LC_Names |-> [connections |-> 0, capacity |-> LC_Capacity[n],
                         current_load |-> 0, active_requests |-> << >>]]

RECURSIVE SumSeq(_)
SumSeq(reqs) == IF reqs = << >> THEN 0 ELSE Head(reqs)[2] + SumSeq(Tail(reqs))

\* lines 64-70 for one server: every entry whose completion time has passed
\* gives back one connection and its size, and leaves the list
LC_ReclaimKeepsLoad(data, current_time) ==
    LET completed == SelectSeq(data.active_requests, LAMBDA r : r[1] <= current_time)
    IN [data EXCEPT
          !.connections = @ - Len(completed),
          !.active_requests = SelectSeq(@, LAMBDA r : r[1] > current_time)]

LC_Reclaim(data, current_time) ==
    LET completed == SelectSeq(data.active_requests, LAMBDA r : r[1] <= current_time)
    IN [data EXCEPT
          !.connections = @ - Len(completed),
          !.current_load = @ - SumSeq(completed),
          !.active_requests = SelectSeq(@, LAMBDA r : r[1] > current_time)]

\* lines 61-70
LC_process_completed_requests(srv, current_time) ==
    [n \in DOMAIN srv |-> LC_Reclaim(srv[n], current_time)]

\* lines 76-79
LC_Eligible_IgnoresLoad(srv, request_size) ==
    {s \in DOMAIN srv : request_size <= srv[s].capacity}

LC_Eligible(srv, request_size) ==
    {s \in DOMAIN srv : request_size <= srv[s].capacity - srv[s].current_load}

\* line 85: min(eligible_servers, key=connections), the first of the smallest
\* in the dict's order
LC_MinServer_TiesLast(srv, eligible) ==
    CHOOSE s \in eligible :
        \A o \in eligible \ {s} :
            \/ srv[s].connections < srv[o].connections
            \/ srv[s].connections = srv[o].connections /\ LC_Pos(s) > LC_Pos(o)

LC_MinServer(srv, eligible) ==
    CHOOSE s \in eligible :
        \A o \in eligible \ {s} :
            \/ srv[s].connections < srv[o].connections
            \/ srv[s].connections = srv[o].connections /\ LC_Pos(s) < LC_Pos(o)

\* lines 72-93: assign_request(request_size), under the lock; d is the
\* processing time drawn at line 89
LC_assign_request(request_size, d) ==
    LET srv == LC_process_completed_requests(lc_servers, now)
        eligible_servers == LC_Eligible(srv, request_size)
        reclaimed == {n \in DOMAIN srv :
                        Len(srv[n].active_requests) < Len(lc_servers[n].active_requests)}
    IN /\ IF eligible_servers = {}
          THEN /\ lc_servers' = srv
               /\ lc_last' = [server |-> "None", size |-> request_size,
                              reclaimed |-> reclaimed]
          ELSE LET server == LC_MinServer(srv, eligible_servers)
               IN /\ lc_servers' =
                       [srv EXCEPT
                          ![server].connections = @ + 1,
                          ![server].current_load = @ + request_size,
                          ![server].active_requests =
                              Append(@, <<now + d, request_size>>)]
                  /\ lc_last' = [server |-> server, size |-> request_size,
                                 reclaimed |-> reclaimed]
       /\ UNCHANGED <<la_vars, now, rr_vars>>

\* LoadBalancer.assign_request lines 21-23: the facade calls the router
LCAssign ==
    /\ lc_pc = "idle"
    /\ lc_pc' = "called"
    /\ \E request_size \in Sizes, d \in ProcTimes : LC_assign_request(request_size, d)

\* lines 95-96: release_connection(server, request_size); the registry it
\* leaves behind
LC_release_connection_Frees(srv, server, request_size) ==
    [srv EXCEPT ![server].connections = @ - 1,
                ![server].current_load = @ - request_size]

LC_release_connection(srv, server, request_size) == srv

\* LoadBalancer.assign_request lines 24-29: after its sleep the facade calls
\* release_connection when the router returned a server, and returns
LCFacadeRelease ==
    /\ lc_pc = "called"
    /\ lc_pc' = "idle"
    /\ lc_servers' = IF lc_last.server # "None"
                     THEN LC_release_connection(lc_servers, lc_last.server,
                                                lc_last.size)
                     ELSE lc_servers
    /\ UNCHANGED <<lc_last, la_vars, now, rr_vars>>

\* -------------------------------------------------- RoundRobinBalancer
\* line 41: self.index = (self.index + 1) % len(self.servers)
RR_Advance_SkipsLast(index) == (index + 1) % (Len(RR_servers) - 1)

RR_Advance(index) == (index + 1) % Len(RR_servers)

\* line 43: the capacity test
RR_TooLarge_AtCapacity(server, request_size) ==
    request_size >= RR_capacities[server]

RR_TooLarge(server, request_size) == request_size > RR_capacities[server]

\* lines 38-47: assign_request(request_size), under the lock, so the calls of
\* all caller threads happen one after the other
RR_assign_request(request_size) ==
    LET server == RR_servers[rr_index + 1]
        result == IF RR_TooLarge(server, request_size) THEN "None" ELSE server
    IN /\ rr_index' = RR_Advance(rr_index)
       /\ rr_log' = Append(rr_log, [index |-> rr_index, size |-> request_size,
                                    server |-> result])
       /\ UNCHANGED <<la_vars, lc_vars, now>>

RRAssign ==
    /\ Len(rr_log) < MaxCalls
    /\ \E request_size \in Sizes : RR_assign_request(request_size)

Init ==
    /\ servers = LA_InitServers
    /\ request_queue = {}
    /\ request_counter = 0
    /\ completed_requests = {}
    /\ sweep_pc = "idle"
    /\ sweep_time = 0
    /\ sweep_iter = << >>
    /\ sweep_used = 0
    /\ temp_queue = {}
    /\ sweep_fault = "none"
    /\ last = NoResult
    /\ dropped = {}
    /\ now = 0
    /\ lc_servers = LC_InitServers
    /\ lc_last = [server |-> "none", size |-> 0, reclaimed |-> {}]
    /\ lc_pc = "idle"
    /\ rr_index = 0
    /\ rr_log = << >>

Next ==
    \/ Assign
    \/ SweepStart
    \/ SweepServer
    \/ SweepQueue
    \/ SweepRefill
    \/ HealthTick
    \/ Tick

Spec == Init /\ [][Next]_vars

\* The Least-Connections router on its own
NextLC ==
    \/ LCAssign
    \/ LCFacadeRelease
    \/ Tick

SpecLC == Init /\ [][NextLC]_vars

\* The Round-Robin router on its own
NextRR == RRAssign

SpecRR == Init /\ [][NextRR]_vars

\* ================================================================ claims
ActiveIds(srv) == UNION {DOMAIN srv[s].active_requests : s \in DOMAIN srv}
QueueIds(q) == {e[3] : e \in q}
\* a step of assign_request: the only operation that allocates an id
AssignStep == request_counter' # request_counter
\* a step of the on-demand sweep that takes an entry off the pending queue
SweepGetStep == sweep_pc = "queue" /\ request_queue # {} /\ request_queue' # request_queue

C2_LoadEqualsActiveSizes ==
    \A s \in DOMAIN lc_servers :
        lc_servers[s].current_load = SumSeq(lc_servers[s].active_requests)

\* an assign call has reclaimed finished requests while others are still active
C2_Witness ==
    /\ lc_last.reclaimed # {}
    /\ \E s \in DOMAIN lc_servers : Len(lc_servers[s].active_requests) >= 2

\* C3: Load-Aware: every assign call returns a placed or a queued result; it
\* never ends in a fault.
C3_AssignReturnsPlacedOrQueued ==
    /\ last.kind \in {"none", "placed", "queued"}
    /\ last.kind = "placed" => last.server \in Names /\ last.req_id >= 1
    /\ last.kind = "queued" => last.queue_position >= 1 /\ last.req_id >= 1

C6_Gone(r) ==
    /\ r \notin QueueIds(request_queue) \cup QueueIds(temp_queue)
    /\ r \notin ActiveIds(servers)
    /\ r \notin completed_requests

C6_ExpiredDropped ==
    [][/\ AssignStep =>
           \A e \in request_queue :
               now - e[2] > request_timeout =>
                   e[3] \in dropped' /\ e \notin request_queue'
       /\ SweepGetStep =>
           \A e \in request_queue \ request_queue' :
               now - e[2] > request_timeout =>
                   e[3] \in dropped' /\ e \notin temp_queue'
       /\ dropped \subseteq dropped'
       /\ \A r \in dropped' : C6_Gone(r)']_vars

\* a sweep has dropped a request while another is still pending
C6_Witness == dropped # {} /\ request_queue # {}

\* C7: Load-Aware: assign with a size above every server's capacity returns
\* queued; the request stays pending under every sweep before its deadline,
\* is removed by the first sweep after it, and is never placed.
C7_TooBig(size) == \A n \in Names : size > Capacity[n]

C7_OversizeQueuedThenDropped ==
    [][/\ (AssignStep /\ C7_TooBig(last'.size)) =>
           /\ last'.kind = "queued"
           /\ last'.req_id \in QueueIds(request_queue')
       /\ \A e \in request_queue \cup temp_queue :
              C7_TooBig(e[4]) =>
                  \/ e \in request_queue' \cup temp_queue'
                  \/ now - e[2] > request_timeout /\ e[3] \in dropped'
       /\ (AssignStep \/ SweepGetStep) =>
              \A e \in request_queue \ request_queue' :
                 (C7_TooBig(e[4]) /\ now - e[2] > request_timeout) =>
                     e[3] \in dropped'
       /\ \A s \in DOMAIN servers' :
              \A r \in DOMAIN servers'[s].active_requests :
                 ~C7_TooBig(servers'[s].active_requests[r].size)]_vars

\* C8: Load-Aware: every placement goes to a registered, healthy server with
\* room for the request, so 0 <= current_load <= capacity always.
C8_WithinCapacity(srv) ==
    \A s \in DOMAIN srv :
        0 <= srv[s].current_load /\ srv[s].current_load <= srv[s].capacity

C8_PlacedOn(s) ==
    /\ s \in DOMAIN servers
    /\ s \in DOMAIN servers'
    /\ \/ servers'[s].current_load > servers[s].current_load
       \/ ~(DOMAIN servers'[s].active_requests \subseteq DOMAIN servers[s].active_requests)

C9_Feasible(srv, size) ==
    {s \in DOMAIN srv :
        srv[s].status = "healthy" /\ srv[s].current_load + size <= srv[s].capacity}

C9_Before(srv, size, a, b) ==
    LET ra == (srv[a].current_load + size) * srv[b].capacity
        rb == (srv[b].current_load + size) * srv[a].capacity
        na == Cardinality(DOMAIN srv[a].active_requests)
        nb == Cardinality(DOMAIN srv[b].active_requests)
    IN \/ ra < rb
       \/ ra = rb /\ na < nb
       \/ ra = rb /\ na = nb /\ Pos(a) < Pos(b)

C9_IsBest(srv, size, s) ==
    /\ s \in C9_Feasible(srv, size)
    /\ \A o \in C9_Feasible(srv, size) \ {s} : C9_Before(srv, size, s, o)

\* the registry as assign saw it when it chose: its placement undone
C9_AtDecision ==
    IF last'.kind = "placed" /\ last'.server \in DOMAIN servers'
    THEN [servers' EXCEPT
            ![last'.server].current_load = @ - last'.size,
            ![last'.server].active_requests =
                [r \in (DOMAIN @) \ {last'.req_id} |-> @[r]]]
    ELSE servers'

C9_MinimizerChosen ==
    [][/\ AssignStep =>
           /\ C9_Feasible(C9_AtDecision, last'.size) # {} =>
                  /\ last'.kind = "placed"
                  /\ C9_IsBest(C9_AtDecision, last'.size, last'.server)
           /\ last'.kind = "queued" => C9_Feasible(C9_AtDecision, last'.size) = {}
       /\ SweepGetStep =>
           \A e \in request_queue \ request_queue' :
               ~(now - e[2] > request_timeout) =>
                   /\ C9_Feasible(servers, e[4]) # {} =>
                          \E s \in DOMAIN servers :
                              /\ C9_IsBest(servers, e[4], s)
                              /\ servers'[s].current_load =
                                     servers[s].current_load + e[4]
                   /\ e \in temp_queue' => C9_Feasible(servers, e[4]) = {}]_vars

\* C10: Load-Aware: the health sweep never runs interleaved with a state
\* mutation; a sweep called on demand holds the lock throughout, so no health
\* tick deletes a server while that sweep is under way.
C10_NoDeletionDuringSweep ==
    [][sweep_pc # "idle" => DOMAIN servers' = DOMAIN servers]_vars

\* C11: Load-Aware: a request placed on a server is never dropped: it stays
\* in an active set until a sweep takes it out by completion, adding its id
\* to completed_requests, whatever health ticks run in between.
C11_PlacedRunsToCompletion ==
    [][\A r \in ActiveIds(servers) :
           r \in ActiveIds(servers') \/ r \in completed_requests']_vars

\* the calls i..j of the Round-Robin log, none of them rejected
C12_Accepted(i, j) == \A k \in i..j : rr_log[k].server # "None"

C12_Count(s, i, j) == Cardinality({k \in i..j : rr_log[k].server = s})

\* C12: Round-Robin: over any N consecutive assign calls none of which is
\* rejected, the servers returned follow the configured order cyclically,
\* starting at the index the call before the first of them left, and each
\* server is returned floor(N / serverCount) or ceil(N / serverCount) times.
C12_CyclicOrder ==
    LET n == Len(RR_servers)
    IN \A i, j \in 1..Len(rr_log) :
          (i <= j /\ C12_Accepted(i, j)) =>
              /\ \A k \in i..j :
                     rr_log[k].server =
                         RR_servers[((rr_log[i].index + (k - i)) % n) + 1]
              /\ \A s \in DOMAIN RR_capacities :
                     /\ C12_Count(s, i, j) >= (j - i + 1) \div n
                     /\ C12_Count(s, i, j) <= (j - i + 1 + n - 1) \div n

\* a rejected call, then five accepted ones in a row, which start at the
\* second server and go round the list more than once
C12_Witness ==
    /\ Len(rr_log) >= 6
    /\ rr_log[1].server = "None"
    /\ C12_Accepted(2, 6)

\* C13: Round-Robin: a call is rejected exactly when its size is greater
\* than the configured capacity of the server at the current index, whatever
\* was assigned to that server before; an accepted call returns that server;
\* and every call, accepted or rejected, advances the index by one modulo the
\* number of servers.
C13_RejectsOnConfiguredCapacity ==
    [][rr_log' # rr_log =>
          LET call == rr_log'[Len(rr_log')]
              at == RR_servers[rr_index + 1]
          IN /\ call.server = "None" <=> call.size > RR_capacities[at]
             /\ call.server # "None" => call.server = at
             /\ rr_index' = (rr_index + 1) % Len(RR_servers)]_vars

\* the first call was accepted by the first server, the second was rejected
\* at the second server's turn, and the index stands at the third server
C13_Witness ==
    /\ Len(rr_log) = 2
    /\ rr_log[1].server = RR_servers[1]
    /\ rr_log[2].server = "None"
    /\ rr_index = 2

\* a step of the Least-Connections assign_request
LCAssignStep == lc_pc = "idle" /\ lc_pc' = "called"

\* what server s has free when the call decides: its capacity less its load,
\* the sizes of its requests whose completion time has come given back
C14_Free(s) ==
    lc_servers[s].capacity
      - (lc_servers[s].current_load
           - SumSeq(SelectSeq(lc_servers[s].active_requests,
                              LAMBDA r : r[1] <= now)))

\* C14: Least-Connections: assign never returns a server with less free
\* capacity at decision time (after reclamation) than the request's size, it
\* rejects exactly when no server has that much free, and no server's
\* current_load ever exceeds its capacity.
C14_NeverOverCapacity ==
    [][/\ LCAssignStep =>
           /\ lc_last'.server # "None" =>
                  /\ lc_last'.server \in LC_Names
                  /\ lc_last'.size <= C14_Free(lc_last'.server)
           /\ lc_last'.server = "None" <=>
                  \A s \in LC_Names : lc_last'.size > C14_Free(s)
       /\ \A s \in LC_Names :
              lc_servers'[s].current_load <= lc_servers'[s].capacity]_vars

\* a call that reclaimed finished requests was still rejected, for a size
\* that fits the capacity of a server: the load decided
C14_Witness ==
    /\ lc_last.server = "None"
    /\ lc_last.reclaimed # {}
    /\ \E s \in LC_Names : lc_last.size <= LC_Capacity[s]

\* the connections server s has when the call decides: those of its requests
\* whose completion time has come given back
C15_Conn(s) ==
    lc_servers[s].connections
      - Len(SelectSeq(lc_servers[s].active_requests, LAMBDA r : r[1] <= now))

\* the example: up to three requests of size 1 on empty servers, none of them
\* completed yet, are on the first, the second and the third server in turn
C15_Example ==
    LET placed == SumSeq([i \in 1..Len(LC_Order) |->
                     <<0, Len(lc_servers[LC_Order[i]].active_requests)>>])
    IN (/\ now = 0
        /\ placed <= 3
        /\ \A s \in LC_Names :
               lc_servers[s].current_load = Len(lc_servers[s].active_requests)) =>
           \A i \in 1..Len(LC_Order) :
              Len(lc_servers[LC_Order[i]].active_requests) =
                  IF i <= placed THEN 1 ELSE 0

\* C15: Least-Connections: when some server has room, assign returns the
\* server with room that has the fewest connections, the first in insertion
\* order among equals, and adds one connection and the request's size to
\* that server and to no other; so three equal requests on empty servers of
\* which each holds only one go to the first, second and third server.
C15_FewestConnectionsChosen ==
    [][/\ LCAssignStep =>
           LET size == lc_last'.size
               chosen == lc_last'.server
           IN (\E s \in LC_Names : size <= C14_Free(s)) =>
                 /\ chosen \in LC_Names
                 /\ size <= C14_Free(chosen)
                 /\ \A o \in LC_Names \ {chosen} :
                        size <= C14_Free(o) =>
                           \/ C15_Conn(chosen) < C15_Conn(o)
                           \/ /\ C15_Conn(chosen) = C15_Conn(o)
                              /\ LC_Pos(chosen) < LC_Pos(o)
                 /\ \A s \in LC_Names :
                        /\ lc_servers'[s].connections =
                               C15_Conn(s) + (IF s = chosen THEN 1 ELSE 0)
                        /\ lc_servers'[s].current_load =
                               lc_servers[s].capacity - C14_Free(s)
                                 + (IF s = chosen THEN size ELSE 0)
       /\ C15_Example']_vars

\* the example's end: three requests of size 1, none completed, one on each
\* server, the last of them placed on the third
C15_Witness ==
    /\ now = 0
    /\ \A s \in LC_Names :
           lc_servers[s].connections = 1 /\ lc_servers[s].current_load = 1
    /\ lc_last.server = LC_Order[3]

\* the step in which the facade calls release_connection and returns
LCReleaseStep == lc_pc = "called" /\ lc_pc' = "idle"

\* release_connection called with any arguments changes nothing
C16_ReleaseIsNoOp(srv) ==
    \A s \in LC_Names, size \in Sizes : LC_release_connection(srv, s, size) = srv

\* C16: Least-Connections: release(server, size) leaves every server's
\* connections, load and active list as they are, for any arguments in any
\* state; the facade's release after an assignment changes nothing, and a
\* server's connections, load or active list shrink only in the reclamation
\* an assign call starts with.
C16_ReleaseChangesNothing ==
    [][/\ C16_ReleaseIsNoOp(lc_servers)
       /\ C16_ReleaseIsNoOp(lc_servers')
       /\ LCReleaseStep => lc_servers' = lc_servers
       /\ (\E s \in LC_Names :
              \/ lc_servers'[s].connections < lc_servers[s].connections
              \/ lc_servers'[s].current_load < lc_servers[s].current_load
              \/ Len(lc_servers'[s].active_requests)
                    < Len(lc_servers[s].active_requests))
            => /\ LCAssignStep
               /\ lc_last'.reclaimed # {}]_vars

\* the facade has released the first server after an assignment, and the next
\* request went to the second server because the first is still taken
C16_Witness ==
    /\ lc_pc = "idle"
    /\ now = 0
    /\ lc_last.server = LC_Order[2]
    /\ lc_servers[LC_Order[1]].connections = 1
    /\ lc_servers[LC_Order[1]].current_load = lc_servers[LC_Order[1]].capacity

\* C17: Load-Aware: a pending request a sweep places on a server gets an
\* active_requests entry keyed by its own id, a key that was not in use; no
\* entry already there is replaced.
C17_PlacedUnderOwnId ==
    [][/\ \A e \in request_queue \cup temp_queue :
              (e \notin request_queue' \cup temp_queue' /\ e[3] \notin dropped') =>
                  /\ e[3] \notin ActiveIds(servers)
                  /\ \E s \in DOMAIN servers' :
                         /\ e[3] \in DOMAIN servers'[s].active_requests
                         /\ servers'[s].active_requests[e[3]].size = e[4]
       /\ \A s \in DOMAIN servers \cap DOMAIN servers' :
              \A r \in DOMAIN servers[s].active_requests :
                  r \in DOMAIN servers'[s].active_requests =>
                      servers'[s].active_requests[r] = servers[s].active_requests[r]
       /\ \A r \in completed_requests' \ completed_requests :
              r \in ActiveIds(servers)]_vars

\* e comes before f in (priority, arrival time)
C18_Earlier(e, f) == e[1] < f[1] \/ (e[1] = f[1] /\ e[2] < f[2])

\* the requests waiting: in the pending queue, or set aside by a sweep under
\* way to be put back
C18_Pending == request_queue \cup temp_queue

\* C18: Load-Aware: a sweep takes the pending requests in ascending
\* (priority, arrival time) order; a request it can not place goes back with
\* the priority and arrival time it had; and of two pending requests of one
\* size, the later in that order is never placed while the earlier waits.
C18_PendingOrderKept ==
    [][/\ SweepGetStep =>
           \A e \in request_queue \ request_queue' :
               \A f \in request_queue : ~C18_Earlier(f, e)
       /\ \A e \in C18_Pending :
              \/ e \in request_queue' \cup temp_queue'
              \/ e[3] \notin QueueIds(request_queue' \cup temp_queue')
       /\ \A e, f \in C18_Pending :
              (/\ e[4] = f[4]
               /\ C18_Earlier(e, f)
               /\ f[3] \in ActiveIds(servers') \ ActiveIds(servers)) =>
                  e \notin request_queue' \cup temp_queue']_vars

\* a sweep has taken one request and set it aside to put it back, and one
\* that comes later in the order is still in the queue
C18_Witness ==
    /\ sweep_pc = "queue"
    /\ \E e \in temp_queue, f \in request_queue : C18_Earlier(e, f)

\* a step of assign_request or of a state-update sweep: it changes something
\* other than the registry
C19_AssignOrSweepStep ==
    <<request_queue, request_counter, completed_requests, sweep_pc, sweep_time,
      sweep_iter, sweep_used, temp_queue, sweep_fault, last, dropped>>'
  # <<request_queue, request_counter, completed_requests, sweep_pc, sweep_time,
      sweep_iter, sweep_used, temp_queue, sweep_fault, last, dropped>>

\* C19: Load-Aware: the registry's set of server names only shrinks, so a
\* server once removed is never back; no step changes the capacity or the
\* status of a server that stays; and no step of assign_request or of the
\* state-update sweep adds or removes a server.
C19_RegistryOnlyShrinks ==
    [][/\ DOMAIN servers' \subseteq DOMAIN servers
       /\ \A s \in DOMAIN servers' :
              /\ servers'[s].capacity = servers[s].capacity
              /\ servers'[s].status = servers[s].status
       /\ C19_AssignOrSweepStep => DOMAIN servers' = DOMAIN servers]_vars

\* a health tick has removed the first server; an assign call and an
\* on-demand sweep have run on what is left
C19_Witness ==
    /\ DOMAIN servers = {Order[2]}
    /\ last.kind = "fault"
    /\ sweep_pc = "refill"

\* the ids the router holds anywhere
C20_KnownIds ==
    QueueIds(request_queue) \cup QueueIds(temp_queue) \cup ActiveIds(servers)
      \cup completed_requests \cup dropped \cup {last.req_id}

\* C20: Load-Aware: every assign call allocates an id strictly greater than
\* every id allocated before it, so no two calls get the same id and no two
\* pending requests carry the same id.
C20_IdsStrictlyIncrease ==
    [][/\ (last' # last \/ request_counter' # request_counter) =>
           /\ last'.req_id = request_counter'
           /\ \A r \in C20_KnownIds \cup {request_counter} : last'.req_id > r
       /\ \A e, f \in request_queue' \cup temp_queue' : e[3] = f[3] => e = f]_vars

\* three calls have been made and two of the requests are pending under
\* different ids
C20_Witness ==
    /\ last.req_id = 3
    /\ Cardinality(QueueIds(request_queue)) = 2

====
